---- MODULE Spec2Model ----
(***************************************************************************)
(* Model of SimpleAudioRecorder (alternative_stt.py) driven by the awaken  *)
(* command (main_typer_assistant_alt.py).                                  *)
(*                                                                         *)
(* One caller thread (awaken's "while True: recorder.text(process_text)")  *)
(* and the capture-loop threads text() creates.  A frame is represented by *)
(* its normalised RMS level in hundredths; a transcription by a sequence   *)
(* of characters; a callback by the sequence of recorder operations it     *)
(* performs.                                                               *)
(***************************************************************************)
EXTENDS Integers, Sequences, FiniteSets, TLC

\* ---------------------------------------------------------------- bounds
NThreads == 2
MaxSpeech == 2
MaxLead == 1
MaxGap == 2
MaxText == 2
MaxCallbackOps == 2

Threads == 1..NThreads
None == 0

\* ------------------------------------------------------- configurations
\* __init__ arguments; silence_duration is kept in milliseconds and
\* silence_threshold in hundredths so that the arithmetic stays integral.
DefaultConfig ==
  [chunk_size |-> 1024, sample_rate |-> 16000,
   silence_threshold |-> 1, silence_duration_ms |-> 2000]

AwakenConfig ==
  [chunk_size |-> 1024, sample_rate |-> 16000,
   silence_threshold |-> 1, silence_duration_ms |-> 1500]

WholeConfig ==
  [chunk_size |-> 8000, sample_rate |-> 16000,
   silence_threshold |-> 1, silence_duration_ms |-> 1000]

FractionConfig ==
  [chunk_size |-> 8000, sample_rate |-> 16000,
   silence_threshold |-> 1, silence_duration_ms |-> 750]

Configs == {DefaultConfig, AwakenConfig, WholeConfig, FractionConfig}

\* ------------------------------------------------------------ inputs
Levels == {0, 1}
Chars == {" ", "h"}
Ops == {"stop", "start", "fail"}

RECURSIVE SeqsUpTo(_, _)
SeqsUpTo(S, n) ==
  IF n = 0 THEN {<<>>}
  ELSE LET shorter == SeqsUpTo(S, n - 1)
       IN  shorter \cup {Append(s, x) : s \in shorter, x \in S}

RawTexts == SeqsUpTo(Chars, MaxText)
CallbackBodies == SeqsUpTo(Ops, MaxCallbackOps)

\* ----------------------------------------------------- pure functions
\* str.strip(): drop leading and trailing whitespace
RECURSIVE LStrip(_)
LStrip(s) ==
  IF s = <<>> THEN <<>>
  ELSE IF Head(s) = " " THEN LStrip(Tail(s)) ELSE s

RECURSIVE RStrip(_)
RStrip(s) ==
  IF s = <<>> THEN <<>>
  ELSE IF s[Len(s)] = " " THEN RStrip(SubSeq(s, 1, Len(s) - 1)) ELSE s

\* a strip that forgets the trailing whitespace
Strip_LeftOnly(s) == LStrip(s)

Strip(s) == RStrip(LStrip(s))

\* _is_silence: normalized_rms < self.silence_threshold
IsSilence(c, level) == level < c.silence_threshold

\* the comparison of line 88 written with >= instead of >
EnoughSilence_Inclusive(c, n) ==
  n * 1000 * c.chunk_size >= c.silence_duration_ms * c.sample_rate

\* the comparison of line 88 made one frame too early
EnoughSilence_Early(c, n) ==
  (n + 1) * 1000 * c.chunk_size > c.silence_duration_ms * c.sample_rate

\* silence_count > (silence_duration * sample_rate / chunk_size)
EnoughSilence(c, n) ==
  n * 1000 * c.chunk_size > c.silence_duration_ms * c.sample_rate

VARIABLES
  cfg,               \* the recorder's configuration
  is_recording,      \* self.is_recording
  recording_thread,  \* self.recording_thread (None or a thread)
  mpc,               \* position of the caller thread
  mret,              \* where the caller's stop() returns to
  thread_state,      \* per thread: "new", "alive", "dead", "killed"
  pc,                \* per thread: position in _record_audio
  stream,            \* per thread: "none", "open", "closed"
  frames,            \* per thread: local frames
  silence_count,     \* per thread: local silence_count
  speech_detected,   \* per thread: local speech_detected
  heard,             \* per thread: frames read since the buffer was reset
  disk,              \* temporary files that exist, by creating thread
  text,              \* per thread: local text
  cb,                \* per thread: what is left of the running callback
  guarded,           \* per thread: the callback body is in try/except
  exc,               \* per thread: the exception raised last
  reported,          \* per thread: "Transcription error" printed
  calls              \* per thread: callback invocations for this buffer

shared == <<cfg, is_recording, recording_thread>>
caller == <<mpc, mret>>
locals == <<pc, stream, frames, silence_count, speech_detected, heard,
            text, cb, guarded, exc, reported, calls>>
vars == <<cfg, is_recording, recording_thread, mpc, mret, thread_state,
          pc, stream, frames, silence_count, speech_detected, heard,
          disk, text, cb, guarded, exc, reported, calls>>

\* Thread.is_alive()
IsAlive(t) == thread_state[t] = "alive"

\* __init__ (lines 29-45) followed by awaken reaching line 69
Init ==
  /\ cfg \in Configs
  /\ is_recording = FALSE
  /\ recording_thread = None
  /\ mpc = "awaken"
  /\ mret = "awaken"
  /\ thread_state = [t \in Threads |-> "new"]
  /\ pc = [t \in Threads |-> "open"]
  /\ stream = [t \in Threads |-> "none"]
  /\ frames = [t \in Threads |-> <<>>]
  /\ silence_count = [t \in Threads |-> 0]
  /\ speech_detected = [t \in Threads |-> FALSE]
  /\ heard = [t \in Threads |-> <<>>]
  /\ disk = {}
  /\ text = [t \in Threads |-> <<>>]
  /\ cb = [t \in Threads |-> <<>>]
  /\ guarded = [t \in Threads |-> FALSE]
  /\ exc = [t \in Threads |-> "none"]
  /\ reported = [t \in Threads |-> FALSE]
  /\ calls = [t \in Threads |-> 0]

\* ------------------------------------------------ the capture loop
\* number of non-silent frames in a buffer
RECURSIVE SpeechFrames(_, _)
SpeechFrames(c, s) ==
  IF s = <<>> THEN 0
  ELSE (IF IsSilence(c, Head(s)) THEN 0 ELSE 1) + SpeechFrames(c, Tail(s))

\* what the microphone can deliver next: an utterance has at most MaxSpeech
\* speech frames, with pauses of at most MaxGap silent frames between them,
\* and is preceded by at most MaxLead silent frames
Deliverable(t, level) ==
  IF IsSilence(cfg, level)
  THEN speech_detected[t] \/ Len(heard[t]) < MaxLead
  ELSE /\ SpeechFrames(cfg, frames[t]) < MaxSpeech
       /\ silence_count[t] <= MaxGap

\* an exception leaves _record_audio: the thread ends where it stands
Escapes(t, e) ==
  /\ thread_state' = [thread_state EXCEPT ![t] = "dead"]
  /\ exc' = [exc EXCEPT ![t] = e]
  /\ pc' = [pc EXCEPT ![t] = "raised"]

\* lines 59-67: self.audio.open(...) succeeds
OpenStream(t) ==
  /\ IsAlive(t) /\ pc[t] = "open"
  /\ stream' = [stream EXCEPT ![t] = "open"]
  /\ pc' = [pc EXCEPT ![t] = "outer"]
  /\ UNCHANGED <<shared, caller, thread_state, frames, silence_count,
                 speech_detected, heard, disk, text, cb, guarded, exc,
                 reported, calls>>

\* lines 59-65: self.audio.open(...) raises
OpenFails(t) ==
  /\ IsAlive(t) /\ pc[t] = "open"
  /\ Escapes(t, "DeviceError")
  /\ UNCHANGED <<shared, caller, stream, frames, silence_count,
                 speech_detected, heard, disk, text, cb, guarded,
                 reported, calls>>

\* lines 69-72 without line 70: the old buffer is kept
OuterCheck_KeepFrames(t) ==
  /\ IsAlive(t) /\ pc[t] = "outer"
  /\ IF is_recording
     THEN /\ pc' = [pc EXCEPT ![t] = "inner"]
          /\ silence_count' = [silence_count EXCEPT ![t] = 0]
          /\ speech_detected' = [speech_detected EXCEPT ![t] = FALSE]
          /\ heard' = [heard EXCEPT ![t] = <<>>]
          /\ exc' = [exc EXCEPT ![t] = "none"]
          /\ reported' = [reported EXCEPT ![t] = FALSE]
          /\ calls' = [calls EXCEPT ![t] = 0]
     ELSE /\ pc' = [pc EXCEPT ![t] = "close"]
          /\ UNCHANGED <<silence_count, speech_detected, heard,
                         exc, reported, calls>>
  /\ UNCHANGED <<shared, caller, thread_state, stream, disk, text, cb,
                 guarded, frames>>

\* lines 69-72: outer while test, then the per-utterance locals are reset
OuterCheck(t) ==
  /\ IsAlive(t) /\ pc[t] = "outer"
  /\ IF is_recording
     THEN /\ pc' = [pc EXCEPT ![t] = "inner"]
          /\ frames' = [frames EXCEPT ![t] = <<>>]
          /\ silence_count' = [silence_count EXCEPT ![t] = 0]
          /\ speech_detected' = [speech_detected EXCEPT ![t] = FALSE]
          /\ heard' = [heard EXCEPT ![t] = <<>>]
          /\ exc' = [exc EXCEPT ![t] = "none"]
          /\ reported' = [reported EXCEPT ![t] = FALSE]
          /\ calls' = [calls EXCEPT ![t] = 0]
     ELSE /\ pc' = [pc EXCEPT ![t] = "close"]
          /\ UNCHANGED <<frames, silence_count, speech_detected, heard,
                         exc, reported, calls>>
  /\ UNCHANGED <<shared, caller, thread_state, stream, disk, text, cb,
                 guarded>>

\* line 75 as "while True": the flag is not looked at before a read
InnerCheck_NoTest(t) ==
  /\ IsAlive(t) /\ pc[t] = "inner"
  /\ pc' = [pc EXCEPT ![t] = "read"]
  /\ UNCHANGED <<shared, caller, thread_state, stream, frames,
                 silence_count, speech_detected, heard, disk, text, cb,
                 guarded, exc, reported, calls>>

\* line 75: inner while test
InnerCheck(t) ==
  /\ IsAlive(t) /\ pc[t] = "inner"
  /\ pc' = [pc EXCEPT ![t] = IF is_recording THEN "read" ELSE "flush"]
  /\ UNCHANGED <<shared, caller, thread_state, stream, frames,
                 silence_count, speech_detected, heard, disk, text, cb,
                 guarded, exc, reported, calls>>

\* lines 76-89 without line 83: speech does not reset the counter
ReadFrame_NoReset(t, level) ==
  /\ IsAlive(t) /\ pc[t] = "read"
  /\ Deliverable(t, level)
  /\ heard' = [heard EXCEPT ![t] = Append(@, level)]
  /\ IF ~IsSilence(cfg, level)
     THEN /\ speech_detected' = [speech_detected EXCEPT ![t] = TRUE]
          /\ frames' = [frames EXCEPT ![t] = Append(@, level)]
          /\ pc' = [pc EXCEPT ![t] = "inner"]
          /\ UNCHANGED silence_count
     ELSE IF speech_detected[t]
     THEN /\ frames' = [frames EXCEPT ![t] = Append(@, level)]
          /\ silence_count' = [silence_count EXCEPT ![t] = @ + 1]
          /\ pc' = [pc EXCEPT ![t] =
                      IF EnoughSilence(cfg, silence_count[t] + 1)
                      THEN "flush" ELSE "inner"]
          /\ UNCHANGED speech_detected
     ELSE /\ pc' = [pc EXCEPT ![t] = "inner"]
          /\ UNCHANGED <<frames, silence_count, speech_detected>>
  /\ UNCHANGED <<shared, caller, thread_state, stream, disk, text, cb,
                 guarded, exc, reported, calls>>

\* lines 76-89: one frame is read, classified and buffered
ReadFrame(t, level) ==
  /\ IsAlive(t) /\ pc[t] = "read"
  /\ Deliverable(t, level)
  /\ heard' = [heard EXCEPT ![t] = Append(@, level)]
  /\ IF ~IsSilence(cfg, level)
     THEN /\ speech_detected' = [speech_detected EXCEPT ![t] = TRUE]
          /\ frames' = [frames EXCEPT ![t] = Append(@, level)]
          /\ silence_count' = [silence_count EXCEPT ![t] = 0]
          /\ pc' = [pc EXCEPT ![t] = "inner"]
     ELSE IF speech_detected[t]
     THEN /\ frames' = [frames EXCEPT ![t] = Append(@, level)]
          /\ silence_count' = [silence_count EXCEPT ![t] = @ + 1]
          /\ pc' = [pc EXCEPT ![t] =
                      IF EnoughSilence(cfg, silence_count[t] + 1)
                      THEN "flush" ELSE "inner"]
          /\ UNCHANGED speech_detected
     ELSE /\ pc' = [pc EXCEPT ![t] = "inner"]
          /\ UNCHANGED <<frames, silence_count, speech_detected>>
  /\ UNCHANGED <<shared, caller, thread_state, stream, disk, text, cb,
                 guarded, exc, reported, calls>>

\* line 76: stream.read raises (anything but the tolerated overflow)
ReadFails(t) ==
  /\ IsAlive(t) /\ pc[t] = "read"
  /\ Escapes(t, "DeviceError")
  /\ UNCHANGED <<shared, caller, stream, frames, silence_count,
                 speech_detected, heard, disk, text, cb, guarded,
                 reported, calls>>

\* line 91 letting only buffers through that were ended by silence
Flush_Discard(t) ==
  /\ IsAlive(t) /\ pc[t] = "flush"
  /\ pc' = [pc EXCEPT ![t] =
              IF frames[t] # <<>> /\ speech_detected[t]
                   /\ EnoughSilence(cfg, silence_count[t])
              THEN "mktemp" ELSE "outer"]
  /\ UNCHANGED <<shared, caller, thread_state, stream, frames,
                 silence_count, speech_detected, heard, disk, text, cb,
                 guarded, exc, reported, calls>>

\* line 91: if frames and speech_detected
Flush(t) ==
  /\ IsAlive(t) /\ pc[t] = "flush"
  /\ pc' = [pc EXCEPT ![t] =
              IF frames[t] # <<>> /\ speech_detected[t]
              THEN "mktemp" ELSE "outer"]
  /\ UNCHANGED <<shared, caller, thread_state, stream, frames,
                 silence_count, speech_detected, heard, disk, text, cb,
                 guarded, exc, reported, calls>>

\* lines 93-94: NamedTemporaryFile(suffix=".wav", delete=False)
MakeTemp(t) ==
  /\ IsAlive(t) /\ pc[t] = "mktemp"
  /\ disk' = disk \cup {t}
  /\ pc' = [pc EXCEPT ![t] = "wave"]
  /\ UNCHANGED <<shared, caller, thread_state, stream, frames,
                 silence_count, speech_detected, heard, text, cb, guarded,
                 exc, reported, calls>>

\* lines 97-101: the buffer is written into the file
WriteWave(t) ==
  /\ IsAlive(t) /\ pc[t] = "wave"
  /\ pc' = [pc EXCEPT ![t] = "transcribe"]
  /\ UNCHANGED <<shared, caller, thread_state, stream, frames,
                 silence_count, speech_detected, heard, disk, text, cb,
                 guarded, exc, reported, calls>>

\* lines 97-101: wave.open or writeframes raises; nothing handles it
WriteWaveFails(t) ==
  /\ IsAlive(t) /\ pc[t] = "wave"
  /\ Escapes(t, "WaveError")
  /\ UNCHANGED <<shared, caller, stream, frames, silence_count,
                 speech_detected, heard, disk, text, cb, guarded,
                 reported, calls>>

\* lines 105-110: the model answers; text = result["text"].strip()
Transcribe(t, raw) ==
  /\ IsAlive(t) /\ pc[t] = "transcribe"
  /\ text' = [text EXCEPT ![t] = Strip(raw)]
  /\ pc' = [pc EXCEPT ![t] = IF Strip(raw) # <<>> THEN "deliver"
                             ELSE "finally"]
  /\ UNCHANGED <<shared, caller, thread_state, stream, frames,
                 silence_count, speech_detected, heard, disk, cb, guarded,
                 exc, reported, calls>>

\* line 106 outside any try block: the failure of the model escapes
TranscribeFails_Escapes(t) ==
  /\ IsAlive(t) /\ pc[t] = "transcribe"
  /\ Escapes(t, "ModelError")
  /\ UNCHANGED <<shared, caller, stream, frames, silence_count,
                 speech_detected, heard, disk, text, cb, guarded,
                 reported, calls>>

\* line 106: the model raises
TranscribeFails(t) ==
  /\ IsAlive(t) /\ pc[t] = "transcribe"
  /\ exc' = [exc EXCEPT ![t] = "ModelError"]
  /\ pc' = [pc EXCEPT ![t] = "except"]
  /\ UNCHANGED <<shared, caller, thread_state, stream, frames,
                 silence_count, speech_detected, heard, disk, text, cb,
                 guarded, reported, calls>>

\* line 113: callback(text) is entered
Invoke(t, body, g) ==
  /\ IsAlive(t) /\ pc[t] = "deliver"
  /\ cb' = [cb EXCEPT ![t] = body]
  /\ guarded' = [guarded EXCEPT ![t] = g]
  /\ calls' = [calls EXCEPT ![t] = @ + 1]
  /\ pc' = [pc EXCEPT ![t] = "callback"]
  /\ UNCHANGED <<shared, caller, thread_state, stream, frames,
                 silence_count, speech_detected, heard, disk, text, exc,
                 reported>>

\* an exception inside the callback: process_text catches it at lines
\* 66-67, a callback without a handler lets it reach line 115
RaisedInCallback(t, e) ==
  /\ exc' = [exc EXCEPT ![t] = e]
  /\ pc' = [pc EXCEPT ![t] = IF guarded[t] THEN "cb_except" ELSE "except"]

\* the callback returns: line 58, or the end of its body
CallbackReturn(t) ==
  /\ IsAlive(t) /\ pc[t] = "callback" /\ cb[t] = <<>>
  /\ guarded' = [guarded EXCEPT ![t] = FALSE]
  /\ pc' = [pc EXCEPT ![t] = "finally"]
  /\ UNCHANGED <<shared, caller, thread_state, stream, frames,
                 silence_count, speech_detected, heard, disk, text, cb,
                 exc, reported, calls>>

\* a start() that flips the flag instead of setting it
CallbackStart_Toggle(t) ==
  /\ IsAlive(t) /\ pc[t] = "callback"
  /\ cb[t] # <<>> /\ Head(cb[t]) = "start"
  /\ is_recording' = ~is_recording
  /\ cb' = [cb EXCEPT ![t] = Tail(@)]
  /\ UNCHANGED <<cfg, recording_thread, caller, thread_state, pc, stream,
                 frames, silence_count, speech_detected, heard, disk, text,
                 guarded, exc, reported, calls>>

\* lines 130-132 called from the callback: start()
CallbackStart(t) ==
  /\ IsAlive(t) /\ pc[t] = "callback"
  /\ cb[t] # <<>> /\ Head(cb[t]) = "start"
  /\ is_recording' = TRUE
  /\ cb' = [cb EXCEPT ![t] = Tail(@)]
  /\ UNCHANGED <<cfg, recording_thread, caller, thread_state, pc, stream,
                 frames, silence_count, speech_detected, heard, disk, text,
                 guarded, exc, reported, calls>>

\* line 136 called from the callback: stop() clears the flag
CallbackStopFlag(t) ==
  /\ IsAlive(t) /\ pc[t] = "callback"
  /\ cb[t] # <<>> /\ Head(cb[t]) = "stop"
  /\ is_recording' = FALSE
  /\ pc' = [pc EXCEPT ![t] = "cb_join"]
  /\ UNCHANGED <<cfg, recording_thread, caller, thread_state, stream,
                 frames, silence_count, speech_detected, heard, disk, text,
                 cb, guarded, exc, reported, calls>>

\* lines 137-138 with a join that waits for the calling thread itself
CallbackStopJoin_Deadlock(t) ==
  /\ IsAlive(t) /\ pc[t] = "cb_join"
  /\ ~(recording_thread # None /\ IsAlive(recording_thread))
  /\ pc' = [pc EXCEPT ![t] = "callback"]
  /\ cb' = [cb EXCEPT ![t] = Tail(@)]
  /\ UNCHANGED <<shared, caller, thread_state, stream, frames,
                 silence_count, speech_detected, heard, disk, text,
                 guarded, exc, reported, calls>>

\* lines 137-138 called from the callback: Thread.join raises RuntimeError
\* when the thread to join is the calling thread
CallbackStopJoin(t) ==
  /\ IsAlive(t) /\ pc[t] = "cb_join"
  /\ IF recording_thread # None /\ IsAlive(recording_thread)
     THEN /\ recording_thread = t
          /\ RaisedInCallback(t, "RuntimeError")
          /\ UNCHANGED cb
     ELSE /\ pc' = [pc EXCEPT ![t] = "callback"]
          /\ cb' = [cb EXCEPT ![t] = Tail(@)]
          /\ UNCHANGED exc
  /\ UNCHANGED <<shared, caller, thread_state, stream, frames,
                 silence_count, speech_detected, heard, disk, text,
                 guarded, reported, calls>>

\* a statement of the callback itself raises (such as line 61)
CallbackFails(t) ==
  /\ IsAlive(t) /\ pc[t] = "callback"
  /\ cb[t] # <<>> /\ Head(cb[t]) = "fail"
  /\ RaisedInCallback(t, "CallbackError")
  /\ UNCHANGED <<shared, caller, thread_state, stream, frames,
                 silence_count, speech_detected, heard, disk, text, cb,
                 guarded, reported, calls>>

\* lines 66-67 of process_text: the error is printed, the callback returns
CallbackExcept(t) ==
  /\ IsAlive(t) /\ pc[t] = "cb_except"
  /\ cb' = [cb EXCEPT ![t] = <<>>]
  /\ guarded' = [guarded EXCEPT ![t] = FALSE]
  /\ pc' = [pc EXCEPT ![t] = "finally"]
  /\ UNCHANGED <<shared, caller, thread_state, stream, frames,
                 silence_count, speech_detected, heard, disk, text,
                 exc, reported, calls>>

\* a handler at line 115 that lets the exception go on
Except_Reraise(t) ==
  /\ IsAlive(t) /\ pc[t] = "except"
  /\ Escapes(t, exc[t])
  /\ UNCHANGED <<shared, caller, stream, frames, silence_count,
                 speech_detected, heard, disk, text, cb, guarded,
                 reported, calls>>

\* lines 115-116: except Exception prints the transcription error
Except(t) ==
  /\ IsAlive(t) /\ pc[t] = "except"
  /\ reported' = [reported EXCEPT ![t] = TRUE]
  /\ cb' = [cb EXCEPT ![t] = <<>>]
  /\ pc' = [pc EXCEPT ![t] = "finally"]
  /\ UNCHANGED <<shared, caller, thread_state, stream, frames,
                 silence_count, speech_detected, heard, disk, text,
                 guarded, exc, calls>>

\* lines 118-125: os.unlink(temp_filename), then back to line 69
Finally(t) ==
  /\ IsAlive(t) /\ pc[t] = "finally"
  /\ disk' = disk \ {t}
  /\ pc' = [pc EXCEPT ![t] = "outer"]
  /\ UNCHANGED <<shared, caller, thread_state, stream, frames,
                 silence_count, speech_detected, heard, text, cb, guarded,
                 exc, reported, calls>>

\* lines 127-128: the stream is stopped and closed, the thread ends
CloseStream(t) ==
  /\ IsAlive(t) /\ pc[t] = "close"
  /\ stream' = [stream EXCEPT ![t] = "closed"]
  /\ thread_state' = [thread_state EXCEPT ![t] = "dead"]
  /\ pc' = [pc EXCEPT ![t] = "done"]
  /\ UNCHANGED <<shared, caller, frames, silence_count, speech_detected,
                 heard, disk, text, cb, guarded, exc, reported, calls>>

\* every step of the capture loop that needs no failure of its environment
LoopStep(t) ==
  \/ OpenStream(t)
  \/ OuterCheck(t)
  \/ InnerCheck(t)
  \/ \E level \in Levels : ReadFrame(t, level)
  \/ Flush(t)
  \/ MakeTemp(t)
  \/ WriteWave(t)
  \/ \E raw \in RawTexts : Transcribe(t, raw)
  \/ \E body \in CallbackBodies, g \in BOOLEAN : Invoke(t, body, g)
  \/ CallbackReturn(t)
  \/ CallbackStart(t)
  \/ CallbackStopFlag(t)
  \/ CallbackStopJoin(t)
  \/ CallbackFails(t)
  \/ CallbackExcept(t)
  \/ Except(t)
  \/ Finally(t)
  \/ CloseStream(t)

\* the failures of the device, the file system and the model
LoopFault(t) ==
  \/ OpenFails(t)
  \/ ReadFails(t)
  \/ WriteWaveFails(t)
  \/ TranscribeFails(t)

\* ------------------------------------------------ the caller thread
\* main_typer_assistant_alt.py lines 69-70: recorder.text(process_text)
CallText ==
  /\ mpc = "awaken"
  /\ mpc' = "text"
  /\ UNCHANGED <<shared, mret, thread_state, locals, disk>>

\* text() without lines 142-143: a new loop is started right away
TextCheck_NoStop ==
  /\ mpc = "text"
  /\ mpc' = "text_flag"
  /\ UNCHANGED <<shared, mret, thread_state, locals, disk>>

\* lines 142-143: a loop that is still alive is stopped first
TextCheck ==
  /\ mpc = "text"
  /\ IF recording_thread # None /\ IsAlive(recording_thread)
     THEN mpc' = "stop" /\ mret' = "text_flag"
     ELSE mpc' = "text_flag" /\ UNCHANGED mret
  /\ UNCHANGED <<shared, thread_state, locals, disk>>

\* line 136: self.is_recording = False
StopFlag ==
  /\ mpc = "stop"
  /\ is_recording' = FALSE
  /\ mpc' = "stop_alive"
  /\ UNCHANGED <<cfg, recording_thread, mret, thread_state, locals, disk>>

\* line 137: if self.recording_thread and self.recording_thread.is_alive()
StopAlive ==
  /\ mpc = "stop_alive"
  /\ mpc' = IF recording_thread # None /\ IsAlive(recording_thread)
            THEN "stop_join" ELSE mret
  /\ UNCHANGED <<shared, mret, thread_state, locals, disk>>

\* line 138: self.recording_thread.join() returns once the thread has ended
StopJoin ==
  /\ mpc = "stop_join"
  /\ ~IsAlive(recording_thread)
  /\ mpc' = mret
  /\ UNCHANGED <<shared, mret, thread_state, locals, disk>>

\* line 145: self.is_recording = True
TextFlag ==
  /\ mpc = "text_flag"
  /\ is_recording' = TRUE
  /\ mpc' = "text_thread"
  /\ UNCHANGED <<cfg, recording_thread, mret, thread_state, locals, disk>>

\* the thread object a new threading.Thread gets
FreshThread == CHOOSE t \in Threads :
  /\ ~IsAlive(t)
  /\ \A u \in Threads : ~IsAlive(u) => t <= u

\* lines 146-151: the thread is created, recorded and started
TextThread ==
  /\ mpc = "text_thread"
  /\ \E t \in Threads : ~IsAlive(t)
  /\ LET t == FreshThread IN
       /\ recording_thread' = t
       /\ thread_state' = [thread_state EXCEPT ![t] = "alive"]
       /\ pc' = [pc EXCEPT ![t] = "open"]
       /\ stream' = [stream EXCEPT ![t] = "none"]
       /\ frames' = [frames EXCEPT ![t] = <<>>]
       /\ silence_count' = [silence_count EXCEPT ![t] = 0]
       /\ speech_detected' = [speech_detected EXCEPT ![t] = FALSE]
       /\ heard' = [heard EXCEPT ![t] = <<>>]
       /\ text' = [text EXCEPT ![t] = <<>>]
       /\ cb' = [cb EXCEPT ![t] = <<>>]
       /\ guarded' = [guarded EXCEPT ![t] = FALSE]
       /\ exc' = [exc EXCEPT ![t] = "none"]
       /\ reported' = [reported EXCEPT ![t] = FALSE]
       /\ calls' = [calls EXCEPT ![t] = 0]
  /\ mpc' = "wait"
  /\ UNCHANGED <<cfg, is_recording, mret, disk>>

\* lines 155-156: the polling loop sees the flag cleared, text() returns
WaitOver ==
  /\ mpc = "wait"
  /\ ~is_recording
  /\ mpc' = "awaken"
  /\ UNCHANGED <<shared, mret, thread_state, locals, disk>>

\* lines 157-159: KeyboardInterrupt inside the try block
InterruptCaught ==
  /\ mpc = "wait"
  /\ mpc' = "stop" /\ mret' = "awaken"
  /\ UNCHANGED <<shared, thread_state, locals, disk>>

\* KeyboardInterrupt anywhere else leaves text() and awaken: the process
\* exits and takes its daemon threads with it (line 149)
InterruptUncaught ==
  /\ mpc \notin {"wait", "exited"}
  /\ mpc' = "exited"
  /\ thread_state' = [t \in Threads |->
                        IF IsAlive(t) THEN "killed" ELSE thread_state[t]]
  /\ UNCHANGED <<shared, mret, locals, disk>>

CallerStep ==
  \/ CallText
  \/ TextCheck
  \/ StopFlag
  \/ StopAlive
  \/ StopJoin
  \/ TextFlag
  \/ TextThread
  \/ WaitOver

Interrupt ==
  \/ InterruptCaught
  \/ InterruptUncaught

Next ==
  \/ CallerStep
  \/ Interrupt
  \/ \E t \in Threads : LoopStep(t)
  \/ \E t \in Threads : LoopFault(t)

Spec == Init /\ [][Next]_vars

\* the scheduler runs every thread that can run; faults and interrupts
\* need not happen
FairSpec ==
  /\ Spec
  /\ WF_vars(CallerStep)
  /\ \A t \in Threads : WF_vars(LoopStep(t))

\* the recorders whose utterances end after a few silent frames
InitShort == Init /\ cfg \in {WholeConfig, FractionConfig}

\* FairSpec for those recorders
FairShortSpec ==
  /\ InitShort /\ [][Next]_vars
  /\ WF_vars(CallerStep)
  /\ \A t \in Threads : WF_vars(LoopStep(t))

TypeOK ==
  /\ cfg \in Configs
  /\ is_recording \in BOOLEAN
  /\ recording_thread \in Threads \cup {None}
  /\ thread_state \in [Threads -> {"new", "alive", "dead", "killed"}]
  /\ disk \subseteq Threads
  /\ \A t \in Threads : calls[t] \in 0..1

\* ------------------------------------------------------------ claims
Processing == {"mktemp", "wave", "transcribe", "deliver", "callback",
               "cb_join", "cb_except", "except", "finally"}
InCallback == {"callback", "cb_join", "cb_except"}

\* number of silent frames at the end of a buffer
RECURSIVE TrailingSilence(_, _)
TrailingSilence(c, s) ==
  IF s = <<>> THEN 0
  ELSE IF IsSilence(c, s[Len(s)])
       THEN 1 + TrailingSilence(c, SubSeq(s, 1, Len(s) - 1))
       ELSE 0

\* a buffer without its leading silent frames
RECURSIVE DropLeadingSilence(_, _)
DropLeadingSilence(c, s) ==
  IF s = <<>> THEN <<>>
  ELSE IF IsSilence(c, Head(s)) THEN DropLeadingSilence(c, Tail(s)) ELSE s

\* silence-frame-count = ceil(silence_duration * sample_rate / frame_size)
SilenceFrameCount(c) ==
  (c.silence_duration_ms * c.sample_rate + 1000 * c.chunk_size - 1)
    \div (1000 * c.chunk_size)

\* floor(silence_duration * sample_rate / frame_size) + 1
BreakCount(c) ==
  (c.silence_duration_ms * c.sample_rate) \div (1000 * c.chunk_size) + 1

\* the buffer a thread is processing was ended by silence, not by a stop
Completed(t) ==
  pc[t] \in Processing \cup {"flush"} /\ EnoughSilence(cfg, silence_count[t])

\* speech frames only, then silent frames only
OneRun(c, s) ==
  \A i \in 1..Len(s) : \A j \in 1..Len(s) :
    (i < j /\ IsSilence(c, s[i])) => IsSilence(c, s[j])

Trimmed(s) == s = <<>> \/ (Head(s) # " " /\ s[Len(s)] # " ")

\* C1: stop() called by the callback on the capture-loop thread completes
\* normally: it raises no error (it does not join the thread it runs on).
C1_ReentrantStopCompletes ==
  \A t \in Threads : exc[t] # "RuntimeError"

C3_StopNeverLost ==
  \A t \in Threads :
    (mpc = "stop_join" /\ recording_thread = t) ~> ~IsAlive(t)

\* C4: after a device failure ended the capture loop, the blocking text()
\* call terminates: the caller gets back to awaken or leaves it.
C4_DeviceFailureEndsRun ==
  \A t \in Threads :
    (thread_state[t] = "dead" /\ exc[t] = "DeviceError")
      ~> (mpc \in {"awaken", "exited"})

\* C5: whenever a loop is in Waiting/Capturing or has terminated, no
\* temporary file it created exists.
C5_NoTempFileLeft ==
  \A t \in Threads :
    (thread_state[t] = "dead" \/ pc[t] \in {"outer", "inner", "read"})
      => t \notin disk

\* C6: a failure of the model is caught: the thread stays alive and goes
\* through the handler to line 69, the callback is not invoked for that
\* buffer, the flag is not touched, and with the flag still set the loop
\* is back in Waiting with an empty buffer.
C6_TranscriptionFailureNotFatal ==
  [][\A t \in Threads :
       /\ (exc[t] # "ModelError" /\ exc'[t] = "ModelError")
            => (pc[t] = "transcribe" /\ pc'[t] = "except"
                  /\ thread_state'[t] = "alive"
                  /\ is_recording' = is_recording)
       /\ (exc[t] = "ModelError" /\ pc'[t] # pc[t])
            => /\ pc'[t] # "raised"
               /\ calls'[t] = 0
               /\ pc[t] \in {"except", "finally"}
                    => (is_recording' = is_recording
                          /\ thread_state'[t] = "alive")
               /\ pc[t] = "except" => pc'[t] = "finally"
               /\ pc[t] = "finally" => (pc'[t] = "outer" /\ t \notin disk')
               /\ (pc[t] = "outer" /\ is_recording)
                    => (pc'[t] = "inner" /\ frames'[t] = <<>>
                          /\ ~speech_detected'[t]
                          /\ silence_count'[t] = 0)]_vars

C6_Witness ==
  \E t \in Threads :
    /\ IsAlive(t) /\ pc[t] = "outer"
    /\ exc[t] = "ModelError" /\ reported[t]
    /\ calls[t] = 0 /\ is_recording

\* C7 (as stated): a buffer ended by silence that consists of one run of
\* speech frames followed by silent frames has no leading silent frame, is
\* what was heard since the first speech frame, and has at most
\* silence-frame-count trailing silent frames; with the default
\* configuration and one speech frame it has 33 frames.
C7_UtteranceContent ==
  \A t \in Threads :
    (Completed(t) /\ OneRun(cfg, frames[t])) =>
      /\ frames[t] # <<>> /\ ~IsSilence(cfg, frames[t][1])
      /\ frames[t] = DropLeadingSilence(cfg, heard[t])
      /\ TrailingSilence(cfg, frames[t]) <= SilenceFrameCount(cfg)
      /\ (cfg = DefaultConfig /\ SpeechFrames(cfg, frames[t]) = 1)
           => Len(frames[t]) = 33

\* C7 (amended): the same, with exactly
\* floor(silence_duration * sample_rate / frame_size) + 1 trailing silent
\* frames: silence-frame-count when the quotient is not whole, one more
\* when it is.
C7_UtteranceContentFloor ==
  \A t \in Threads :
    (Completed(t) /\ OneRun(cfg, frames[t])) =>
      /\ frames[t] # <<>> /\ ~IsSilence(cfg, frames[t][1])
      /\ frames[t] = DropLeadingSilence(cfg, heard[t])
      /\ TrailingSilence(cfg, frames[t]) = BreakCount(cfg)
      /\ Len(frames[t]) = SpeechFrames(cfg, frames[t]) + BreakCount(cfg)
      /\ (cfg = DefaultConfig /\ SpeechFrames(cfg, frames[t]) = 1)
           => Len(frames[t]) = 33

C7_Witness ==
  \E t \in Threads :
    /\ Completed(t) /\ pc[t] = "transcribe"
    /\ cfg = WholeConfig
    /\ Len(heard[t]) > Len(frames[t])
    /\ SpeechFrames(cfg, frames[t]) = MaxSpeech
    /\ OneRun(cfg, frames[t])
    /\ TrailingSilence(cfg, frames[t]) = SilenceFrameCount(cfg) + 1

\* C8: the inner loop is left only with the flag cleared or with at least
\* silence-frame-count silent frames at the end of the buffer; a read that
\* stays in Capturing makes the buffer one frame longer.
C8_NoEarlyBoundary ==
  [][\A t \in Threads :
       /\ (pc[t] = "inner" /\ pc'[t] = "flush") => ~is_recording
       /\ (pc[t] = "read" /\ pc'[t] = "flush")
            => TrailingSilence(cfg, frames'[t]) >= SilenceFrameCount(cfg)
       /\ (pc[t] = "read" /\ pc'[t] = "inner" /\ speech_detected'[t])
            => Len(frames'[t]) = Len(frames[t]) + 1]_vars

C8_Witness ==
  \E t \in Threads :
    /\ IsAlive(t) /\ pc[t] = "read" /\ is_recording
    /\ speech_detected[t]
    /\ TrailingSilence(cfg, frames[t]) = SilenceFrameCount(cfg) - 1
    /\ TrailingSilence(cfg, frames[t]) > 0

\* C9: the callback runs at most once per buffer, with text that is not
\* empty and has no whitespace at either end, and only when the model did
\* not fail; with empty text it is not invoked and no error is printed.
C9_CallbackDiscipline ==
  \A t \in Threads :
    /\ calls[t] <= 1
    /\ (pc[t] \in InCallback \cup {"deliver"} \/ calls[t] > 0)
         => (text[t] # <<>> /\ Trimmed(text[t]) /\ exc[t] # "ModelError")
    /\ pc[t] \in InCallback => calls[t] = 1
    /\ (pc[t] = "finally" /\ exc[t] = "none" /\ text[t] = <<>>)
         => (calls[t] = 0 /\ ~reported[t])

C9_Witness ==
  \E t \in Threads :
    /\ pc[t] = "finally" /\ exc[t] = "none"
    /\ text[t] = <<>> /\ calls[t] = 0 /\ t \in disk

\* C10: when stop() called by the caller returns, the capture-loop thread
\* has terminated and its capture stream is no longer open.
C10_JoinSemantics ==
  [][(mpc \in {"stop_alive", "stop_join"} /\ mpc' \in {"text_flag", "awaken"}
        /\ recording_thread # None)
       => (thread_state'[recording_thread] # "alive"
             /\ stream'[recording_thread] # "open")]_vars

\* C11: once the callback has called stop(), the loop thread reads no
\* further frame: it leaves the callback, finds the flag cleared at line 69
\* and ends; the caller leaves its polling loop and text() is over.
C11_StopFromCallbackEndsRun ==
  /\ [][\A t \in Threads :
          (IsAlive(t) /\ exc[t] = "RuntimeError" /\ pc'[t] # pc[t])
            => /\ pc'[t] \in {"finally", "outer", "close", "done"}
               /\ pc[t] = "outer" => (~is_recording /\ pc'[t] = "close")]_vars
  /\ \A t \in Threads :
       (IsAlive(t) /\ pc[t] = "cb_join") ~> ~IsAlive(t)
  /\ \A t \in Threads :
       (IsAlive(t) /\ pc[t] = "cb_join" /\ mpc = "wait")
         ~> (mpc \in {"awaken", "exited"})

C11_Witness ==
  \E t \in Threads :
    /\ thread_state[t] = "dead" /\ pc[t] = "done"
    /\ exc[t] = "RuntimeError" /\ stream[t] = "closed"
    /\ recording_thread = t
    /\ mpc = "awaken" /\ ~is_recording

\* C12: at most one capture-loop thread is alive at any time, and a thread
\* is started only when no other is alive.
C12_OneLoopAlive ==
  /\ Cardinality({t \in Threads : IsAlive(t)}) <= 1
  /\ mpc \in {"text_flag", "text_thread"} => \A t \in Threads : ~IsAlive(t)

\* text() found the previous loop alive, stopped it, and started a new one
C12_Witness ==
  /\ mpc = "wait" /\ mret = "text_flag"
  /\ recording_thread # None /\ IsAlive(recording_thread)
  /\ pc[recording_thread] = "read"
  /\ Cardinality({t \in Threads : IsAlive(t)}) = 1

\* C13: an interrupt caught in text() leads to the end of that text() call:
\* the caller gets back to awaken (or a further interrupt takes it out).
C13_GracefulInterrupt ==
  (mpc = "stop" /\ mret = "awaken") ~> (mpc \in {"awaken", "exited"})

\* positions at which a thread holds a buffer that is being built
Building == {"inner", "read", "flush"}

\* C14: among the live threads at most one holds a buffer, being built or
\* being processed; a frame is read only while no live thread is
\* processing a buffer; a buffer changes only by one appended frame at a
\* read, or by being emptied at line 70 after the previous one went through
\* line 91 (handed off or dropped).
C14_SingleInFlightBuffer ==
  [][/\ Cardinality({t \in Threads :
                       IsAlive(t)' /\ pc'[t] \in Building \cup Processing}) <= 1
     /\ \A t \in Threads :
          /\ (heard'[t] # heard[t] /\ pc[t] = "read")
               => \A u \in Threads : IsAlive(u) => pc[u] \notin Processing
          /\ (frames'[t] # frames[t] /\ IsAlive(t))
               => \/ /\ pc[t] = "read"
                     /\ Len(frames'[t]) = Len(frames[t]) + 1
                     /\ SubSeq(frames'[t], 1, Len(frames[t])) = frames[t]
                  \/ /\ pc[t] = "outer" /\ frames'[t] = <<>>
          /\ (pc[t] = "outer" /\ pc'[t] = "inner")
               => (frames'[t] = <<>> /\ ~speech_detected'[t])
          /\ (pc'[t] = "outer" /\ pc[t] # "outer")
               => pc[t] \in {"open", "flush", "finally"}]_vars

\* a second buffer is being built after the first was handed off
C14_Witness ==
  \E t \in Threads :
    /\ IsAlive(t) /\ pc[t] = "read"
    /\ calls[t] = 0 /\ text[t] # <<>>
    /\ frames[t] # <<>> /\ speech_detected[t]

\* a step in which thread t executes start()
StartStep(t) ==
  /\ pc[t] = "callback" /\ cb[t] # <<>> /\ Head(cb[t]) = "start"
  /\ cb'[t] # cb[t]

\* C15: start() sets the flag and touches nothing else of the recorder, its
\* threads, streams, buffers or files; when the flag is already set the
\* recorder is left as it was, so a second start() changes nothing.
C15_StartIdempotent ==
  [][\A t \in Threads :
       StartStep(t) =>
         /\ is_recording'
         /\ UNCHANGED <<cfg, recording_thread, thread_state, stream, frames,
                        silence_count, speech_detected, heard, disk, text,
                        exc, reported, calls, pc, mpc, mret>>
         /\ is_recording => UNCHANGED is_recording]_vars

\* the caller's stop() has cleared the flag, one start() of the callback
\* has set it again, and the next start() finds it set
C15_Witness ==
  \E t \in Threads :
    /\ IsAlive(t) /\ pc[t] = "callback" /\ cb[t] = <<"start">>
    /\ is_recording /\ mpc = "stop_join"

\* C16: a read is entered only from the test of line 75 with the flag set,
\* and is followed by that test again or by line 91; with the flag cleared
\* the test of line 75 leads to line 91 and that of line 69 to the end of
\* the loop, so that at most the read in progress completes.
C16_PromptStop ==
  [][\A t \in Threads :
       /\ (pc'[t] = "read" /\ pc[t] # "read")
            => (pc[t] = "inner" /\ is_recording)
       /\ (pc[t] = "read" /\ pc'[t] # "read")
            => pc'[t] \in {"inner", "flush", "raised"}
       /\ (~is_recording /\ pc[t] = "inner" /\ pc'[t] # "inner")
            => pc'[t] = "flush"
       /\ (~is_recording /\ pc[t] = "outer" /\ pc'[t] # "outer")
            => pc'[t] = "close"
       /\ (~is_recording /\ pc[t] = "flush" /\ pc'[t] # "flush")
            => pc'[t] \in {"mktemp", "outer"}]_vars

\* the flag was cleared in Waiting after one silent frame; the loop has
\* left both while loops without another read
C16_Witness ==
  \E t \in Threads :
    /\ IsAlive(t) /\ pc[t] = "close" /\ ~is_recording
    /\ frames[t] = <<>> /\ Len(heard[t]) = 1
    /\ mpc = "stop_join"

\* the longest run of silent frames in a buffer that is followed by speech
RECURSIVE LongestPause(_, _, _)
LongestPause(c, s, run) ==
  IF s = <<>> THEN 0
  ELSE IF IsSilence(c, Head(s))
       THEN LongestPause(c, Tail(s), run + 1)
       ELSE LET rest == LongestPause(c, Tail(s), 0)
            IN  IF run > rest THEN run ELSE rest

\* C17: the counter is the number of silent frames since the last speech
\* frame; in Capturing every frame heard since the first speech frame is in
\* the buffer, in order; in Waiting the buffer is empty; the pauses inside a
\* buffer are those that did not exceed the threshold, and while the flag
\* is set a buffer is ended only by a count that exceeds it.
C17_SilenceCounter ==
  /\ \A t \in Threads :
       /\ silence_count[t] = TrailingSilence(cfg, frames[t])
       /\ frames[t] = DropLeadingSilence(cfg, heard[t])
       /\ speech_detected[t] <=> frames[t] # <<>>
       /\ ~EnoughSilence(cfg, LongestPause(cfg, frames[t], 0))
  /\ \A t \in Threads :
       (IsAlive(t) /\ pc[t] = "flush" /\ is_recording)
         => EnoughSilence(cfg, silence_count[t])

\* a buffer ended by silence that holds a pause between two speech frames
C17_Witness ==
  \E t \in Threads :
    /\ Completed(t) /\ pc[t] = "transcribe"
    /\ LongestPause(cfg, frames[t], 0) > 0
    /\ SpeechFrames(cfg, frames[t]) = 2

CallbackErrors == {"CallbackError", "RuntimeError"}

\* C18: an exception that leaves the callback reaches the handler of line
\* 115: the thread stays alive, the error is printed, the temporary file is
\* removed, and line 69 decides by the flag alone whether the loop goes on.
C18_CallbackFailureIsolated ==
  [][\A t \in Threads :
       /\ (pc[t] \in InCallback /\ ~guarded[t]
             /\ exc'[t] \in CallbackErrors /\ pc'[t] # pc[t])
            => (pc'[t] = "except" /\ thread_state'[t] = "alive")
       /\ (exc[t] \in CallbackErrors /\ pc[t] = "except" /\ pc'[t] # pc[t])
            => (pc'[t] = "finally" /\ reported'[t]
                  /\ thread_state'[t] = "alive" /\ t \in disk')
       /\ (exc[t] \in CallbackErrors /\ pc[t] = "finally" /\ pc'[t] # pc[t])
            => (pc'[t] = "outer" /\ t \notin disk'
                  /\ thread_state'[t] = "alive")
       /\ (exc[t] \in CallbackErrors /\ pc[t] = "outer" /\ pc'[t] # pc[t])
            => pc'[t] = (IF is_recording THEN "inner" ELSE "close")]_vars

\* the callback failed, the file is gone and the loop is about to go on
C18_Witness ==
  \E t \in Threads :
    /\ IsAlive(t) /\ pc[t] = "outer" /\ is_recording
    /\ exc[t] = "CallbackError" /\ reported[t]
    /\ calls[t] = 1 /\ t \notin disk

\* C19: whenever text() returns to awaken, the capture-loop thread it
\* started has terminated and its capture stream is no longer open.
C19_QuiescenceOnReturn ==
  [][(mpc \in {"wait", "stop_alive", "stop_join"} /\ mpc' = "awaken")
       => (thread_state'[recording_thread] # "alive"
             /\ stream'[recording_thread] # "open")]_vars

\* C20: an interrupt caught while the driver is inside text() leads to the
\* driver having terminated with no capture loop running.
C20_CtrlCExits ==
  (mpc = "stop" /\ mret = "awaken")
    ~> (mpc = "exited" /\ \A t \in Threads : ~IsAlive(t))

====
